---------------------------- MODULE Spec2Model ----------------------------
(***************************************************************************)
(* Sale lifecycle of the point-of-sale backend: the request handlers of    *)
(* controllers/saleController.js (createSale, quickSale, recordPayment,    *)
(* voidSale, refundSale) run as concurrent requests against one document   *)
(* store.  A handler is cut into steps at its awaits: what runs between    *)
(* two awaits is one atomic step (Node runs it without interruption), and  *)
(* steps of different requests interleave freely.  deleteUser of           *)
(* controllers/userController.js is modelled the same way, on the User     *)
(* collection.                                                             *)
(*                                                                         *)
(* A document a handler loads (findById) is a private snapshot; save()     *)
(* writes back the paths the handler modified (Mongoose sends $set for an  *)
(* assigned path and $push for an array push).                             *)
(*                                                                         *)
(* The models (Sale, Product, Customer) are not among the source files;    *)
(* their methods are modelled from the specification's sections 3 and 4.   *)
(* Money is in integer minor units.                                        *)
(***************************************************************************)
EXTENDS Integers, Sequences, FiniteSets, TLC

\* ------------------------------------------------------------------ bounds
MaxRequests     == 3      \* requests issued in one behaviour of the ledger scenario
MaxSaleRequests == 2      \* requests issued in one behaviour of the stock scenario
MaxItems        == 2      \* line items of one request
MaxQty          == 2      \* quantity of one line
MaxStock        == 2      \* initial currentStock of the product

\* --------------------------------------------------------------- constants
QuickSaleTaxRate == 16      \* quickSale: tax: { rate: 16, amount: 0 }

Requests    == 1..MaxRequests
ProductIds  == {"p1"}
CustomerIds == {"c1"}
NoCustomer  == "none"
Prices      == {50}
PayAmounts  == {30, 70}           \* recordPayment: req.body.amount
QuickPayAmounts == {60}           \* quickSale: req.body.paymentAmount
Methods     == {"cash", "credit"} \* recordPayment: req.body.method
UserIds     == {"u1", "u2", "u3"}
MissingUser == "u0"               \* an id that is not in the User collection
NoUser      == "none"

\* item.unitPrice of a request line: Absent when the request gives no override.
Absent    == -1
Overrides == {Absent, 0}

\* One line of a request's item list.
ItemInputs == [product : ProductIds, quantity : 1..MaxQty, unitPrice : Overrides]

VARIABLES
    products,   \* the Product collection: id -> document
    customers,  \* the Customer collection: id -> document
    sales,      \* the Sale collection: the persisted sales, in order of creation
    req,        \* the requests: each one's position in its handler and its locals
    stock0,     \* history: every product's currentStock at the start
    users       \* the User collection: id -> document

vars == <<products, customers, sales, req, stock0, users>>

\* ------------------------------------------------------------ pure helpers
RECURSIVE SumSeq(_)
SumSeq(s) == IF s = <<>> THEN 0 ELSE Head(s) + SumSeq(Tail(s))

\* Mutant of CreateSaleCheck: the stock test forgets allowBackorder.
CreateSaleCheckNoBackorder(p, qty) ==
    IF ~p.exists THEN "notfound"
    ELSE IF ~p.isActive THEN "inactive"
    ELSE IF p.trackInventory /\ p.currentStock < qty THEN "stock"
    ELSE "ok"

\* createSale's per-item validation (product lookup, active, stock check).
CreateSaleCheck(p, qty) ==
    IF ~p.exists THEN "notfound"
    ELSE IF ~p.isActive THEN "inactive"
    ELSE IF p.trackInventory /\ p.currentStock < qty /\ ~p.allowBackorder
         THEN "stock"
    ELSE "ok"

\* quickSale's per-item validation: no isActive test, no allowBackorder test.
QuickSaleCheck(p, qty) ==
    IF ~p.exists THEN "notfound"
    ELSE IF p.trackInventory /\ p.currentStock < qty THEN "stock"
    ELSE "ok"

\* item.unitPrice = item.unitPrice || product.effectivePrice: undefined and 0
\* are both falsy.
ResolveUnitPrice(given, effective) ==
    IF given = Absent \/ given = 0 THEN effective ELSE given

\* if (product.inventory.trackInventory) in the stock loops
StockIsTracked(p) == p.trackInventory

\* Mutant of UpdateStockFails: the backorder policy is not enforced.
UpdateStockNeverFails(doc, qty) == FALSE

\* Product.updateStock(quantity, "sale", ...) on a loaded document: it fails
\* when the new stock would violate the backorder policy ...
UpdateStockFails(doc, qty) == doc.currentStock - qty < 0 /\ ~doc.allowBackorder

\* ... and otherwise saves the document with the new currentStock.
UpdateStockValue(doc, qty) == doc.currentStock - qty

\* Sale pre-save: a line's tax amount and subtotal.
LineTax(it) == ((it.unitPrice * it.quantity - it.discount) * it.taxRate) \div 100

LineSubtotal(it) == it.unitPrice * it.quantity - it.discount + LineTax(it)

\* Sale pre-save: the totals, recomputed from the items.
CalculateTotals(items) ==
    LET sub  == SumSeq([i \in 1..Len(items) |-> items[i].unitPrice * items[i].quantity])
        disc == SumSeq([i \in 1..Len(items) |-> items[i].discount])
        tax  == SumSeq([i \in 1..Len(items) |-> LineTax(items[i])])
    IN  [subtotal |-> sub, discount |-> disc, tax |-> tax,
         total |-> sub - disc + tax]

NoRefund == [present |-> FALSE, totalRefunded |-> 0]

\* Mutant of NewSale: the totals are taken from the request, not recomputed.
NewSaleTrustingInput(items, customer, payment) ==
    [items      |-> items,
     customer   |-> customer,
     totals     |-> [subtotal |-> 0, discount |-> 0, tax |-> 0,
                     total |-> payment.totalPaid],
     payment    |-> payment,
     status     |-> "completed",
     voided     |-> FALSE,
     refundInfo |-> NoRefund,
     refunded   |-> [i \in 1..Len(items) |-> 0]]

\* new Sale({ items, customer, payment, ... }) followed by save(): the document
\* as persisted.  The totals are the pre-save hook's, whatever the request held.
NewSale(items, customer, payment) ==
    [items      |-> items,
     customer   |-> customer,
     totals     |-> CalculateTotals(items),
     payment    |-> payment,
     status     |-> "completed",
     voided     |-> FALSE,
     refundInfo |-> NoRefund,
     refunded   |-> [i \in 1..Len(items) |-> 0]]

\* createSale: req.body.payment, as the request gives it.
PendingPayment ==
    [status |-> "pending", totalPaid |-> 0, change |-> 0, details |-> <<>>]

CreatePayments == {PendingPayment}

\* quickSale: payment: { method: "cash", status: "paid", totalPaid, change, details }
QuickSalePayment(paymentAmount, total) ==
    [status |-> "paid", totalPaid |-> paymentAmount,
     change |-> paymentAmount - total, details |-> <<paymentAmount>>]

\* ------------------------------------------------------------------- state
NoProduct ==
    [exists |-> FALSE, isActive |-> FALSE, trackInventory |-> FALSE,
     allowBackorder |-> FALSE, currentStock |-> 0, effectivePrice |-> 0]

NoSale == NewSale(<<>>, NoCustomer, PendingPayment)

NewCustomer ==
    [totalOrders |-> 0, totalSpent |-> 0,
     favorites |-> [p \in ProductIds |-> 0], credit |-> <<>>]

IdleReq ==
    [pc |-> "idle", kind |-> "none", items |-> <<>>, i |-> 1, sale |-> 0,
     pdoc |-> NoProduct, sdoc |-> NoSale, cdoc |-> NewCustomer,
     amount |-> 0, method |-> "cash", total |-> 0, refund |-> <<>>,
     override |-> Absent, actor |-> NoUser, target |-> NoUser,
     decs |-> 0, result |-> "none"]

\* A request that is never issued in this behaviour.
OffReq == [IdleReq EXCEPT !.pc = "off"]

ProductConfigs ==
    [exists : {TRUE}, isActive : BOOLEAN, trackInventory : BOOLEAN,
     allowBackorder : BOOLEAN, currentStock : 0..MaxStock, effectivePrice : Prices]
    \cup
    {[NoProduct EXCEPT !.effectivePrice = pr] : pr \in Prices}

\* An ordinary product: active, tracked, fully stocked, no backorder.
StockedConfigs ==
    {c \in ProductConfigs : c.exists /\ c.isActive /\ c.trackInventory
                            /\ ~c.allowBackorder /\ c.currentStock = MaxStock}

UserConfigs == [role : {"owner", "operator"}, isActive : BOOLEAN]

\* The staff while sales are made: every account is an active owner.
Staff == [u \in UserIds |-> [role |-> "owner", isActive |-> TRUE]]

InitWith(configs, n) ==
    /\ users = Staff
    /\ products \in [ProductIds -> configs]
    /\ req = [r \in Requests |-> IF r <= n THEN IdleReq ELSE OffReq]
    /\ stock0 = [p \in ProductIds |-> products[p].currentStock]
    /\ customers = [c \in CustomerIds |-> NewCustomer]
    /\ sales = <<>>

\* The stock scenario: a product of any configuration, MaxSaleRequests requests.
Init == InitWith(ProductConfigs, MaxSaleRequests)

\* The ledger scenario: an ordinary product, MaxRequests requests.
LedgerInit == InitWith(StockedConfigs, MaxRequests)

\* Requests are issued in order of their number.
CanStart(r) ==
    /\ req[r].pc = "idle"
    /\ \A q \in Requests : q < r => req[q].pc # "idle"

\* The response is sent: the locals are dropped, the outcome is kept.
Finish(r, result) ==
    [req EXCEPT ![r] = [IdleReq EXCEPT !.pc = "done", !.kind = req[r].kind,
                                       !.sale = req[r].sale, !.decs = req[r].decs,
                                       !.result = result]]

\* await ActivityLog.log({ ... }): the audit record is written, or the write
\* is rejected.
LogOutcomes == {"written", "rejected"}

\* The response after the awaited audit write: a rejection is not caught in
\* createSale, and is turned into an error by the catch of voidSale and
\* refundSale.
AfterLog(outcome) == IF outcome = "written" THEN "ok" ELSE "logfailed"

\* The line the validation loop reads next; the item list is drawn as it is read.
NewLine(item, taxRate) ==
    [product |-> item.product, quantity |-> item.quantity,
     unitPrice |-> item.unitPrice, discount |-> 0, taxRate |-> taxRate]

\* ------------------------------------------------------- stock loop (shared)
\* First half of a pass: const product = await Product.findById(item.product)
LoadProduct(r, here, update, after) ==
    /\ req[r].pc = here
    /\ LET its == sales[req[r].sale].items
           p   == products[its[req[r].i].product]
       IN  IF StockIsTracked(p)
           THEN req' = [req EXCEPT ![r].pdoc = p, ![r].pc = update]
           ELSE IF req[r].i = Len(its)
                THEN req' = [req EXCEPT ![r].pc = after, ![r].i = 1]
                ELSE req' = [req EXCEPT ![r].i = req[r].i + 1]
    /\ UNCHANGED <<products, customers, sales, stock0, users>>

\* Second half: await product.updateStock(item.quantity, "sale", ...); a
\* rejection is not caught by the handler and ends the request with an error.
UpdateStock(r, here, load, after) ==
    /\ req[r].pc = here
    /\ LET its == sales[req[r].sale].items
           it  == its[req[r].i]
       IN  IF UpdateStockFails(req[r].pdoc, it.quantity)
           THEN /\ req' = Finish(r, "updatefailed")
                /\ UNCHANGED products
           ELSE /\ products' = [products EXCEPT ![it.product].currentStock =
                                    UpdateStockValue(req[r].pdoc, it.quantity)]
                /\ req' = [req EXCEPT
                       ![r].pc   = IF req[r].i = Len(its) THEN after ELSE load,
                       ![r].i    = IF req[r].i = Len(its) THEN 1 ELSE req[r].i + 1,
                       ![r].pdoc = NoProduct,
                       ![r].decs = req[r].decs + 1]
    /\ UNCHANGED <<customers, sales, stock0, users>>

\* -------------------------------------------------------------- createSale
CreateSaleStart(r) ==
    /\ CanStart(r)
    /\ req' = [req EXCEPT ![r].pc = "cs_validate", ![r].kind = "createSale"]
    /\ UNCHANGED <<products, customers, sales, stock0, users>>

\* One pass of the validation loop: findById, then the three tests.
CreateSaleValidate(r) ==
    /\ req[r].pc = "cs_validate"
    /\ \E item \in ItemInputs, last \in BOOLEAN :
         LET p   == products[item.product]
             chk == CreateSaleCheck(p, item.quantity)
             it  == NewLine(item, 0)
         IN  /\ last \/ Len(req[r].items) + 1 < MaxItems
             /\ IF chk # "ok"
                THEN req' = [Finish(r, chk) EXCEPT ![r].items = Append(req[r].items, it)]
                ELSE req' = [req EXCEPT
                         ![r].items = Append(req[r].items,
                             [it EXCEPT !.unitPrice =
                                 ResolveUnitPrice(item.unitPrice, p.effectivePrice)]),
                         ![r].override = item.unitPrice,
                         ![r].pc = IF last THEN "cs_save" ELSE "cs_validate"]
    /\ UNCHANGED <<products, customers, sales, stock0, users>>

\* new Sale({ items, customer, customerInfo, payment, ... }); await sale.save()
CreateSaleSave(r) ==
    /\ req[r].pc = "cs_save"
    /\ \E customer \in CustomerIds \cup {NoCustomer}, payment \in CreatePayments :
         sales' = Append(sales, NewSale(req[r].items, customer, payment))
    /\ req' = [req EXCEPT ![r].sale = Len(sales) + 1, ![r].pc = "cs_load",
                          ![r].i = 1, ![r].items = <<>>, ![r].override = Absent]
    /\ UNCHANGED <<products, customers, stock0, users>>

CreateSaleLoadProduct(r) == LoadProduct(r, "cs_load", "cs_update", "cs_customer")

CreateSaleUpdateStock(r) == UpdateStock(r, "cs_update", "cs_load", "cs_customer")

\* Customer.updateOrderStatistics(amount) on a loaded document.
UpdateOrderStatistics(doc, amount) ==
    [doc EXCEPT !.totalOrders = doc.totalOrders + 1,
                !.totalSpent  = doc.totalSpent + amount]

\* The favorite-products loop over sale.items, on the loaded document.
RECURSIVE AddFavorites(_, _)
AddFavorites(fav, items) ==
    IF items = <<>> THEN fav
    ELSE AddFavorites([fav EXCEPT ![Head(items).product] = @ + Head(items).quantity],
                      Tail(items))

\* if (customer) { const customerDoc = await Customer.findById(customer) ...
CreateSaleLoadCustomer(r) ==
    /\ req[r].pc = "cs_customer"
    /\ LET c == sales[req[r].sale].customer
       IN  IF c = NoCustomer
           THEN req' = [req EXCEPT ![r].pc = "cs_respond"]
           ELSE req' = [req EXCEPT ![r].cdoc = customers[c], ![r].pc = "cs_stats"]
    /\ UNCHANGED <<products, customers, sales, stock0, users>>

\* await customerDoc.updateOrderStatistics(sale.totals.total), then the
\* favorite-products loop runs on the document in memory.
CreateSaleUpdateStatistics(r) ==
    /\ req[r].pc = "cs_stats"
    /\ LET s   == sales[req[r].sale]
           doc == UpdateOrderStatistics(req[r].cdoc, s.totals.total)
       IN  /\ customers' = [customers EXCEPT
                                ![s.customer].totalOrders = doc.totalOrders,
                                ![s.customer].totalSpent  = doc.totalSpent]
           /\ req' = [req EXCEPT
                  ![r].cdoc = [doc EXCEPT !.favorites = AddFavorites(doc.favorites, s.items)],
                  ![r].pc = "cs_favorites"]
    /\ UNCHANGED <<products, sales, stock0, users>>

\* await customerDoc.save()
CreateSaleSaveCustomer(r) ==
    /\ req[r].pc = "cs_favorites"
    /\ customers' = [customers EXCEPT
                        ![sales[req[r].sale].customer].favorites = req[r].cdoc.favorites]
    /\ req' = [req EXCEPT ![r].pc = "cs_respond", ![r].cdoc = NewCustomer]
    /\ UNCHANGED <<products, sales, stock0, users>>

\* sale.populate, ActivityLog.log, res.status(201).json({ success: true, ... })
CreateSaleRespond(r) ==
    /\ req[r].pc = "cs_respond"
    /\ \E outcome \in LogOutcomes : req' = Finish(r, AfterLog(outcome))
    /\ UNCHANGED <<products, customers, sales, stock0, users>>

\* --------------------------------------------------------------- quickSale
QuickSaleStart(r) ==
    /\ CanStart(r)
    /\ req' = [req EXCEPT ![r].pc = "qs_validate", ![r].kind = "quickSale"]
    /\ UNCHANGED <<products, customers, sales, stock0, users>>

\* One pass of quickSale's loop: findById, the tests, saleItems.push, total +=.
\* The loop reads item.product and item.quantity only.
QuickSaleValidate(r) ==
    /\ req[r].pc = "qs_validate"
    /\ \E item \in {it \in ItemInputs : it.unitPrice = Absent}, last \in BOOLEAN :
         LET p   == products[item.product]
             chk == QuickSaleCheck(p, item.quantity)
             it  == NewLine(item, QuickSaleTaxRate)
         IN  /\ last \/ Len(req[r].items) + 1 < MaxItems
             /\ IF chk # "ok"
                THEN req' = [Finish(r, chk) EXCEPT ![r].items = Append(req[r].items, it)]
                ELSE req' = [req EXCEPT
                         ![r].items = Append(req[r].items,
                             [it EXCEPT !.unitPrice = p.effectivePrice]),
                         ![r].total = req[r].total + p.effectivePrice * item.quantity,
                         ![r].pc = IF last THEN "qs_save" ELSE "qs_validate"]
    /\ UNCHANGED <<products, customers, sales, stock0, users>>

\* new Sale({ items: saleItems, payment: { ... } }); await sale.save()
QuickSaleSave(r) ==
    /\ req[r].pc = "qs_save"
    /\ \E paymentAmount \in QuickPayAmounts :
         sales' = Append(sales, NewSale(req[r].items, NoCustomer,
                                        QuickSalePayment(paymentAmount, req[r].total)))
    /\ req' = [req EXCEPT ![r].sale = Len(sales) + 1, ![r].pc = "qs_load",
                          ![r].i = 1, ![r].total = 0, ![r].items = <<>>]
    /\ UNCHANGED <<products, customers, stock0, users>>

QuickSaleLoadProduct(r) == LoadProduct(r, "qs_load", "qs_update", "qs_respond")

QuickSaleUpdateStock(r) == UpdateStock(r, "qs_update", "qs_load", "qs_respond")

QuickSaleRespond(r) ==
    /\ req[r].pc = "qs_respond"
    /\ req' = Finish(r, "ok")
    /\ UNCHANGED <<products, customers, sales, stock0, users>>

\* ----------------------------------------------------------- recordPayment
RecordPaymentStart(r) ==
    /\ CanStart(r)
    /\ \E id \in 1..Len(sales) :
         req' = [req EXCEPT ![r].pc = "rp_load", ![r].kind = "recordPayment",
                            ![r].sale = id]
    /\ UNCHANGED <<products, customers, sales, stock0, users>>

\* Mutant of AlreadyPaid: the test is missing.
NeverAlreadyPaid(sale) == FALSE

\* if (sale.payment.status === "paid") return next(new AppError(...))
AlreadyPaid(sale) == sale.payment.status = "paid"

\* Mutant of ApplyPayment: a payment that exactly covers the total is "partial".
ApplyPaymentStrict(sale, amount) ==
    LET paid == sale.payment.totalPaid + amount
    IN  [sale EXCEPT
            !.payment.details   = Append(@, amount),
            !.payment.totalPaid = paid,
            !.payment.status    = IF paid > sale.totals.total THEN "paid" ELSE "partial",
            !.payment.change    = IF paid > sale.totals.total
                                  THEN paid - sale.totals.total ELSE @]

\* The handler's changes to the loaded document, up to await sale.save().
ApplyPayment(sale, amount) ==
    LET paid == sale.payment.totalPaid + amount
    IN  [sale EXCEPT
            !.payment.details   = Append(@, amount),
            !.payment.totalPaid = paid,
            !.payment.status    = IF paid >= sale.totals.total THEN "paid" ELSE "partial",
            !.payment.change    = IF paid >= sale.totals.total
                                  THEN paid - sale.totals.total ELSE @]

\* const sale = await Sale.findById(id), the already-paid test, the changes.
RecordPaymentLoad(r) ==
    /\ req[r].pc = "rp_load"
    /\ LET sale == sales[req[r].sale]
       IN  IF AlreadyPaid(sale)
           THEN req' = Finish(r, "alreadypaid")
           ELSE \E amount \in PayAmounts :
                  req' = [req EXCEPT ![r].sdoc = ApplyPayment(sale, amount),
                                     ![r].amount = amount, ![r].pc = "rp_save"]
    /\ UNCHANGED <<products, customers, sales, stock0, users>>

\* await sale.save(): the pushed detail and the assigned payment paths; then
\* the test of sale.customer and of the request's method, read here first.
RecordPaymentSave(r) ==
    /\ req[r].pc = "rp_save"
    /\ LET id  == req[r].sale
           doc == req[r].sdoc
       IN  /\ sales' = [sales EXCEPT
                  ![id].payment.details   = Append(@, req[r].amount),
                  ![id].payment.totalPaid = doc.payment.totalPaid,
                  ![id].payment.status    = doc.payment.status,
                  ![id].payment.change    = IF doc.payment.status = "paid"
                                            THEN doc.payment.change ELSE @]
           /\ \E method \in Methods :
                req' = [req EXCEPT
                  ![r].pc = IF doc.customer # NoCustomer /\ method = "credit"
                            THEN "rp_credit" ELSE "rp_respond",
                  ![r].method = method,
                  ![r].sdoc = NoSale]
    /\ UNCHANGED <<products, customers, stock0, users>>

\* customer.addCreditTransaction("payment", amount, receiptNumber, user)
RecordPaymentCredit(r) ==
    /\ req[r].pc = "rp_credit"
    /\ customers' = [customers EXCEPT
           ![sales[req[r].sale].customer].credit = Append(@, req[r].amount)]
    /\ req' = [req EXCEPT ![r].pc = "rp_respond", ![r].method = "cash"]
    /\ UNCHANGED <<products, sales, stock0, users>>

RecordPaymentRespond(r) ==
    /\ req[r].pc = "rp_respond"
    /\ req' = Finish(r, "ok")
    /\ UNCHANGED <<products, customers, sales, stock0, users>>

\* ---------------------------------------------------------------- voidSale
\* Sale.void(user, reason) on a loaded document: refused when the sale is
\* already voided or has any refund activity.
VoidRefused(sale) ==
    \/ sale.status = "voided"
    \/ sale.voided
    \/ sale.status \in {"partial_refund", "refunded"}
    \/ sale.refundInfo.present

VoidSaleStart(r) ==
    /\ CanStart(r)
    /\ \E id \in 1..Len(sales) :
         req' = [req EXCEPT ![r].pc = "vs_load", ![r].kind = "voidSale", ![r].sale = id]
    /\ UNCHANGED <<products, customers, sales, stock0, users>>

\* const sale = await Sale.findById(id); sale.void(...) runs up to its save.
VoidSaleLoad(r) ==
    /\ req[r].pc = "vs_load"
    /\ LET sale == sales[req[r].sale]
       IN  IF VoidRefused(sale)
           THEN req' = Finish(r, "invalidstate")
           ELSE req' = [req EXCEPT ![r].pc = "vs_save"]
    /\ UNCHANGED <<products, customers, sales, stock0, users>>

\* The save inside sale.void: status and voidInfo are the assigned paths.
VoidSaleSave(r) ==
    /\ req[r].pc = "vs_save"
    /\ sales' = [sales EXCEPT ![req[r].sale].status = "voided",
                              ![req[r].sale].voided = TRUE]
    /\ req' = [req EXCEPT ![r].pc = "vs_respond"]
    /\ UNCHANGED <<products, customers, stock0, users>>

\* Mutant of VoidSaleRespond: the void puts the first line's units back in stock.
VoidSaleRespondRestocking(r) ==
    /\ req[r].pc = "vs_respond"
    /\ LET line == sales[req[r].sale].items[1]
       IN  products' = [products EXCEPT ![line.product].currentStock = @ + line.quantity]
    /\ req' = Finish(r, "ok")
    /\ UNCHANGED <<customers, sales, stock0, users>>

\* ActivityLog.log, res.json({ success: true, ... }), inside the try.
VoidSaleRespond(r) ==
    /\ req[r].pc = "vs_respond"
    /\ \E outcome \in LogOutcomes : req' = Finish(r, AfterLog(outcome))
    /\ UNCHANGED <<products, customers, sales, stock0, users>>

\* -------------------------------------------------------------- refundSale
\* The refund requests for a sale: a quantity per line, not all zero.
RefundInputs(sale) ==
    {q \in [1..Len(sale.items) -> 0..MaxQty] : \E i \in 1..Len(sale.items) : q[i] > 0}

\* Sale.refund(user, items, reason) on a loaded document: refused when the
\* sale is voided or a quantity exceeds what remains refundable on its line.
RefundRefused(sale, q) ==
    \/ sale.status = "voided"
    \/ sale.voided
    \/ \E i \in 1..Len(sale.items) : q[i] > sale.items[i].quantity - sale.refunded[i]

\* The refunded amount of a request: each line's per-unit amount times its quantity.
RefundAmount(sale, q) ==
    SumSeq([i \in 1..Len(sale.items) |->
               (LineSubtotal(sale.items[i]) \div sale.items[i].quantity) * q[i]])

\* The document after sale.refund: refund bookkeeping and the new status.
ApplyRefund(sale, q) ==
    LET refunded == [i \in 1..Len(sale.items) |-> sale.refunded[i] + q[i]]
    IN  [sale EXCEPT
            !.refunded   = refunded,
            !.refundInfo = [present |-> TRUE,
                            totalRefunded |-> sale.refundInfo.totalRefunded
                                              + RefundAmount(sale, q)],
            !.status     = IF \A i \in 1..Len(sale.items) :
                                  refunded[i] = sale.items[i].quantity
                           THEN "refunded" ELSE "partial_refund"]

RefundSaleStart(r) ==
    /\ CanStart(r)
    /\ \E id \in 1..Len(sales) :
         req' = [req EXCEPT ![r].pc = "rf_load", ![r].kind = "refundSale", ![r].sale = id]
    /\ UNCHANGED <<products, customers, sales, stock0, users>>

\* const sale = await Sale.findById(id); sale.refund(...) runs up to its save.
RefundSaleLoad(r) ==
    /\ req[r].pc = "rf_load"
    /\ LET sale == sales[req[r].sale]
       IN  \E q \in RefundInputs(sale) :
              IF RefundRefused(sale, q)
              THEN req' = Finish(r, "invalidstate")
              ELSE req' = [req EXCEPT ![r].sdoc = ApplyRefund(sale, q),
                                      ![r].refund = q, ![r].pc = "rf_save"]
    /\ UNCHANGED <<products, customers, sales, stock0, users>>

\* The save inside sale.refund: refundInfo, the lines' refunded quantities, status.
RefundSaleSave(r) ==
    /\ req[r].pc = "rf_save"
    /\ LET doc == req[r].sdoc
       IN  /\ sales' = [sales EXCEPT ![req[r].sale].status = doc.status,
                                     ![req[r].sale].refundInfo = doc.refundInfo,
                                     ![req[r].sale].refunded = doc.refunded]
           /\ req' = [req EXCEPT
                  ![r].pc = IF doc.customer # NoCustomer THEN "rf_customer"
                            ELSE "rf_respond"]
    /\ UNCHANGED <<products, customers, stock0, users>>

\* Mutant of SubtractRefund: the refunded sale no longer counts as an order.
SubtractRefundAndOrder(customer, sale) ==
    [customer EXCEPT !.totalSpent  = @ - sale.refundInfo.totalRefunded,
                     !.totalOrders = @ - 1]

\* const refundAmount = sale.refundInfo.totalRefunded;
\* customer.statistics.totalSpent -= refundAmount
SubtractRefund(customer, sale) ==
    [customer EXCEPT !.totalSpent = @ - sale.refundInfo.totalRefunded]

\* const customer = await Customer.findById(sale.customer), then the
\* statistics are changed on the loaded document.
RefundSaleLoadCustomer(r) ==
    /\ req[r].pc = "rf_customer"
    /\ LET c == req[r].sdoc.customer
       IN  req' = [req EXCEPT
               ![r].cdoc = SubtractRefund(customers[c], req[r].sdoc),
               ![r].pc = "rf_savecustomer"]
    /\ UNCHANGED <<products, customers, sales, stock0, users>>

\* await customer.save()
RefundSaleSaveCustomer(r) ==
    /\ req[r].pc = "rf_savecustomer"
    /\ customers' = [customers EXCEPT
           ![req[r].sdoc.customer].totalSpent = req[r].cdoc.totalSpent]
    /\ req' = [req EXCEPT ![r].pc = "rf_respond", ![r].cdoc = NewCustomer]
    /\ UNCHANGED <<products, sales, stock0, users>>

\* ActivityLog.log, res.json({ success: true, ... }), inside the try.
RefundSaleRespond(r) ==
    /\ req[r].pc = "rf_respond"
    /\ \E outcome \in LogOutcomes : req' = Finish(r, AfterLog(outcome))
    /\ UNCHANGED <<products, customers, sales, stock0, users>>

\* -------------------------------------------------------------- deleteUser
\* userController.js.  The route is for owners only: the request is issued by
\* an account that is an active owner when it is authenticated.
DeleteUserStart(r) ==
    /\ CanStart(r)
    /\ \E actor \in UserIds :
         /\ users[actor].role = "owner"
         /\ users[actor].isActive
         /\ req' = [req EXCEPT ![r].pc = "du_load", ![r].kind = "deleteUser",
                               ![r].actor = actor]
    /\ UNCHANGED <<products, customers, sales, stock0, users>>

\* User.countDocuments({ role: "owner", isActive: true })
OwnerCount(us) == Cardinality({u \in UserIds : us[u].role = "owner" /\ us[u].isActive})

\* if (ownerCount <= 1) return next(new AppError("Cannot delete the last owner ..."))
LastOwner(ownerCount) == ownerCount <= 1

\* const user = await User.findById(req.params.id), the not-found test, the
\* self test, and the test of user.role.
DeleteUserLoad(r) ==
    /\ req[r].pc = "du_load"
    /\ \E target \in UserIds \cup {MissingUser} :
         IF target = MissingUser THEN req' = Finish(r, "notfound")
         ELSE IF target = req[r].actor THEN req' = Finish(r, "self")
         ELSE req' = [req EXCEPT
                  ![r].target = target,
                  ![r].pc = IF users[target].role = "owner" THEN "du_count"
                            ELSE "du_save"]
    /\ UNCHANGED <<products, customers, sales, stock0, users>>

\* const ownerCount = await User.countDocuments(...), then the last-owner test.
DeleteUserCount(r) ==
    /\ req[r].pc = "du_count"
    /\ IF LastOwner(OwnerCount(users))
       THEN req' = Finish(r, "lastowner")
       ELSE req' = [req EXCEPT ![r].pc = "du_save"]
    /\ UNCHANGED <<products, customers, sales, stock0, users>>

\* user.isActive = false; await user.save()
DeleteUserSave(r) ==
    /\ req[r].pc = "du_save"
    /\ users' = [users EXCEPT ![req[r].target].isActive = FALSE]
    /\ req' = [req EXCEPT ![r].pc = "du_respond"]
    /\ UNCHANGED <<products, customers, sales, stock0>>

\* ActivityLog.log, res.json({ success: true, ... })
DeleteUserRespond(r) ==
    /\ req[r].pc = "du_respond"
    /\ \E outcome \in LogOutcomes : req' = Finish(r, AfterLog(outcome))
    /\ UNCHANGED <<products, customers, sales, stock0, users>>

\* ------------------------------------------------------------ specification
SaleCreation(r) ==
    \/ CreateSaleStart(r)
    \/ CreateSaleValidate(r)
    \/ CreateSaleSave(r)
    \/ CreateSaleLoadProduct(r)
    \/ CreateSaleUpdateStock(r)
    \/ CreateSaleLoadCustomer(r)
    \/ CreateSaleUpdateStatistics(r)
    \/ CreateSaleSaveCustomer(r)
    \/ CreateSaleRespond(r)
    \/ QuickSaleStart(r)
    \/ QuickSaleValidate(r)
    \/ QuickSaleSave(r)
    \/ QuickSaleLoadProduct(r)
    \/ QuickSaleUpdateStock(r)
    \/ QuickSaleRespond(r)

Payment(r) ==
    \/ RecordPaymentStart(r)
    \/ RecordPaymentLoad(r)
    \/ RecordPaymentSave(r)
    \/ RecordPaymentCredit(r)
    \/ RecordPaymentRespond(r)

Lifecycle(r) ==
    \/ VoidSaleStart(r)
    \/ VoidSaleLoad(r)
    \/ VoidSaleSave(r)
    \/ VoidSaleRespond(r)
    \/ RefundSaleStart(r)
    \/ RefundSaleLoad(r)
    \/ RefundSaleSave(r)
    \/ RefundSaleLoadCustomer(r)
    \/ RefundSaleSaveCustomer(r)
    \/ RefundSaleRespond(r)

Next == \E r \in Requests : SaleCreation(r) \/ Payment(r) \/ Lifecycle(r)

\* Every handler, MaxSaleRequests requests, a product of any configuration.
Spec == Init /\ [][Next]_vars

\* One sale is created; the other requests record payments on it.
PaymentNext == SaleCreation(1) \/ \E r \in Requests : Payment(r)

PaymentSpec == LedgerInit /\ [][PaymentNext]_vars

\* One sale is created; the other requests void and refund it.
LifecycleNext == SaleCreation(1) \/ \E r \in Requests : Lifecycle(r)

LifecycleSpec == LedgerInit /\ [][LifecycleNext]_vars

\* The accounts: any roles and states with at least one active owner; no
\* product, no sale; MaxRequests deleteUser requests.
UserInit ==
    /\ users \in [UserIds -> UserConfigs]
    /\ OwnerCount(users) >= 1
    /\ products = [p \in ProductIds |-> NoProduct]
    /\ req = [r \in Requests |-> IdleReq]
    /\ stock0 = [p \in ProductIds |-> 0]
    /\ customers = [c \in CustomerIds |-> NewCustomer]
    /\ sales = <<>>

Accounts(r) ==
    \/ DeleteUserStart(r)
    \/ DeleteUserLoad(r)
    \/ DeleteUserCount(r)
    \/ DeleteUserSave(r)
    \/ DeleteUserRespond(r)

UserNext == \E r \in Requests : Accounts(r)

UserSpec == UserInit /\ [][UserNext]_vars

\* ------------------------------------------------------------ claim helpers
\* No request is between its first step and its response.
Quiescent == \A r \in Requests : req[r].pc \in {"idle", "off", "done"}

Finished(r) == req[r].pc = "done"

Succeeded(r) == Finished(r) /\ req[r].result = "ok"

\* A request refused for lack of stock, by the handler's test or by updateStock.
StockRefused(r) == Finished(r) /\ req[r].result \in {"stock", "updatefailed"}

\* The lines a finished request asked for, as far as the handler read them.
RequestedLines(r) == IF req[r].sale # 0 THEN sales[req[r].sale].items ELSE req[r].items

AsksOneUnit(r) ==
    /\ Len(RequestedLines(r)) = 1
    /\ RequestedLines(r)[1].quantity = 1

Guarded(p) == p.exists /\ p.isActive /\ p.trackInventory /\ ~p.allowBackorder

\* The quantity of product id on the lines of every persisted sale.
SoldQuantity(id) ==
    SumSeq([k \in 1..Len(sales) |->
        SumSeq([i \in 1..Len(sales[k].items) |->
            IF sales[k].items[i].product = id THEN sales[k].items[i].quantity ELSE 0])])

\* ------------------------------------------------------------------- claims
\* C1: two createSale requests, each for one unit of a tracked product without
\* backorder that has one unit in stock: once both have finished, exactly one
\* has succeeded and the other was refused for lack of stock.
C1_ExactlyOneSaleSucceeds ==
    ( /\ Guarded(products["p1"])
      /\ stock0["p1"] = 1
      /\ \A r \in 1..2 : req[r].kind = "createSale" /\ Finished(r) /\ AsksOneUnit(r) )
    => \/ Succeeded(1) /\ StockRefused(2)
       \/ Succeeded(2) /\ StockRefused(1)

\* C2: the currentStock of a tracked product without backorder is never below
\* zero, whatever createSale and quickSale requests run and interleave.
C2_StockNeverNegative ==
    \A id \in ProductIds :
        products[id].trackInventory /\ ~products[id].allowBackorder
            => products[id].currentStock >= 0

\* C2, its case: a sale names the product on two lines, the first line takes
\* the last unit and the decrement of the second is refused.
C2_Witness ==
    /\ Guarded(products["p1"])
    /\ stock0["p1"] = 1
    /\ products["p1"].currentStock = 0
    /\ \E r \in Requests :
         /\ req[r].result = "updatefailed"
         /\ Len(sales[req[r].sale].items) = 2

\* C3: a createSale line that passed the lookup and the active test, on a
\* tracked product with less stock than the line's quantity, ends the request
\* with the insufficient-stock error and no sale persisted when backorder is
\* off, and passes the test when backorder is on; updateStock on a product
\* with backorder on never fails and writes the loaded stock minus the quantity.
C3_StockCheck ==
    [][ \A r \in Requests :
          /\ ( /\ req[r].pc = "cs_validate"
               /\ req'[r] # req[r] )
             => LET line == req'[r].items[Len(req'[r].items)]
                    p    == products[line.product]
                IN  (p.exists /\ p.isActive /\ p.trackInventory
                        /\ p.currentStock < line.quantity)
                    => IF p.allowBackorder
                       THEN req'[r].pc \in {"cs_validate", "cs_save"}
                       ELSE /\ req'[r].pc = "done"
                            /\ req'[r].result = "stock"
                            /\ req'[r].sale = 0
                            /\ sales' = sales
                            /\ products' = products
          /\ ( /\ req[r].pc = "cs_update"
               /\ req'[r] # req[r]
               /\ req[r].pdoc.allowBackorder )
             => LET line == sales[req[r].sale].items[req[r].i]
                IN  /\ req'[r].result = "none"
                    /\ req[r].pdoc.currentStock = products[line.product].currentStock
                         => products'[line.product].currentStock
                              = products[line.product].currentStock - line.quantity
      ]_vars

\* C3, its case: a createSale on a product with backorder on has succeeded and
\* left the stock below zero.
C3_Witness ==
    /\ products["p1"].allowBackorder
    /\ products["p1"].currentStock < 0
    /\ \E r \in Requests : req[r].kind = "createSale" /\ Succeeded(r)

\* C4: a createSale that ended with an error response has persisted no sale
\* and has changed no product's stock.
C4_FailedSaleLeavesNothing ==
    \A r \in Requests :
        (req[r].kind = "createSale" /\ Finished(r) /\ req[r].result # "ok")
            => req[r].sale = 0 /\ req[r].decs = 0

\* C5: when no request is in flight, the stock of every tracked product has
\* gone down by exactly the quantities on the lines of the persisted sales.
C5_OneDecrementPerLine ==
    Quiescent =>
        \A id \in ProductIds :
            (products[id].exists /\ products[id].trackInventory)
                => stock0[id] - products[id].currentStock = SoldQuantity(id)

C7_PaidIffCovered ==
    \A k \in 1..Len(sales) :
        (sales[k].payment.status = "paid")
            <=> (sales[k].payment.totalPaid >= sales[k].totals.total)

\* C8: the save of a recordPayment of amount a, on a sale that is as the
\* request loaded it, appends one detail a, raises totalPaid by a, and sets
\* status "paid" and change = totalPaid - total when the total is covered,
\* status "partial" and the change as it was otherwise.
C8_PaymentAccumulates ==
    [][ \A r \in Requests :
          ( /\ req[r].pc = "rp_save"
            /\ req'[r].pc # "rp_save"
            /\ req[r].sdoc.payment.totalPaid
                 = sales[req[r].sale].payment.totalPaid + req[r].amount
            /\ Len(req[r].sdoc.payment.details)
                 = Len(sales[req[r].sale].payment.details) + 1 )
          => LET old == sales[req[r].sale]
                 new == sales'[req[r].sale]
                 a   == req[r].amount
             IN  /\ old.payment.status # "paid"
                 /\ new.payment.details = Append(old.payment.details, a)
                 /\ new.payment.totalPaid = old.payment.totalPaid + a
                 /\ IF new.payment.totalPaid >= new.totals.total
                    THEN /\ new.payment.status = "paid"
                         /\ new.payment.change = new.payment.totalPaid - new.totals.total
                    ELSE /\ new.payment.status = "partial"
                         /\ new.payment.change = old.payment.change
                 /\ new.totals = old.totals /\ new.items = old.items
                 /\ new.status = old.status
      ]_vars

\* C8, its case: payments of 30 then 70 on a total of 100 end paid in full
\* with no change.
C8_Witness ==
    \E k \in 1..Len(sales) :
        /\ sales[k].totals.total = 100
        /\ sales[k].payment.details = <<30, 70>>
        /\ sales[k].payment.status = "paid"
        /\ sales[k].payment.totalPaid = 100
        /\ sales[k].payment.change = 0
        /\ Quiescent

\* C9: a recordPayment that loads a sale whose payment.status is "paid" ends
\* with the already-paid error and changes neither the sale nor the customer.
C9_AlreadyPaidRefused ==
    [][ \A r \in Requests :
          ( /\ req[r].pc = "rp_load"
            /\ sales[req[r].sale].payment.status = "paid"
            /\ req'[r] # req[r] )
          => /\ req'[r].pc = "done"
             /\ req'[r].result = "alreadypaid"
             /\ sales' = sales
             /\ customers' = customers
      ]_vars

\* C9, its case: a recordPayment on a sale that is paid was refused.
C9_Witness ==
    \E r \in Requests :
        /\ req[r].result = "alreadypaid"
        /\ Len(sales[req[r].sale].payment.details) > 0
        /\ sales[req[r].sale].payment.status = "paid"

\* C10: no sale carries both void information and refund information.
C10_VoidRefundExclusive ==
    \A k \in 1..Len(sales) : ~(sales[k].voided /\ sales[k].refundInfo.present)

\* The edges of the Sale status machine.
StatusEdges ==
    {<<"completed", "voided">>, <<"completed", "partial_refund">>,
     <<"completed", "refunded">>, <<"partial_refund", "partial_refund">>,
     <<"partial_refund", "refunded">>}

\* C11: a sale's status starts at "completed" and every change of it follows an
\* edge of the status machine: "voided" and "refunded" are never left, and no
\* request, recordPayment included, moves the status along any other edge.
C11_StatusTransitions ==
    [][ /\ \A k \in 1..Len(sales) :
             \/ sales'[k].status = sales[k].status
             \/ <<sales[k].status, sales'[k].status>> \in StatusEdges
        /\ \A k \in (Len(sales) + 1)..Len(sales') : sales'[k].status = "completed"
      ]_vars

\* What remains refundable on line i of a sale.
Remaining(sale, i) == sale.items[i].quantity - sale.refunded[i]

\* C12: a refund that asks, on any line, for more than what remains refundable
\* on it never gets past the test and changes nothing; a refund that is
\* applied asks for no more than what remains on each line when it is written,
\* and leaves status "refunded" when it takes all that remains on every line,
\* "partial_refund" otherwise.
C12_RefundBound ==
    [][ \A r \in Requests :
          /\ ( /\ req[r].pc = "rf_load"
               /\ req'[r] # req[r] )
             => LET sale == sales[req[r].sale]
                IN  /\ sales' = sales /\ customers' = customers /\ products' = products
                    /\ req'[r].pc = "rf_save"
                         => \A i \in 1..Len(sale.items) :
                                req'[r].refund[i] <= Remaining(sale, i)
          /\ ( /\ req[r].pc = "rf_save"
               /\ req'[r] # req[r] )
             => LET old == sales[req[r].sale]
                    new == sales'[req[r].sale]
                    q   == req[r].refund
                IN  /\ \A i \in 1..Len(old.items) : q[i] <= Remaining(old, i)
                    /\ new.status =
                         IF \A i \in 1..Len(old.items) : q[i] = Remaining(old, i)
                         THEN "refunded" ELSE "partial_refund"
      ]_vars

\* Request r refunds every unit of every line of the sale it loaded.
FullRefund(r) ==
    \A i \in 1..Len(req[r].sdoc.items) : req[r].refund[i] = req[r].sdoc.items[i].quantity

\* Request r is the only refundSale request, and the createSale that made its
\* sale has answered with success.
RefundFollowsSale(r) ==
    /\ \A q \in Requests \ {r} : req[q].kind # "refundSale"
    /\ \E q \in Requests : /\ req[q].kind = "createSale"
                            /\ req[q].sale = req[r].sale
                            /\ Succeeded(q)

\* C13: for a sale linked to a customer who had 0 orders and 0 spent before
\* it, a full refund that follows the successful createSale finds the customer
\* with 1 order and the sale's total spent and computes 1 order and 0 spent;
\* its save, of a customer loaded after the sale was counted, leaves the
\* customer with totalSpent back at 0 and totalOrders still 1.
C13_RefundRestoresSpent ==
    [][ \A r \in Requests :
          /\ ( /\ req[r].pc = "rf_customer"
               /\ req'[r] # req[r]
               /\ FullRefund(r)
               /\ RefundFollowsSale(r) )
             => /\ customers[req[r].sdoc.customer].totalSpent = req[r].sdoc.totals.total
                /\ customers[req[r].sdoc.customer].totalOrders = 1
                /\ req'[r].cdoc.totalSpent = 0
                /\ req'[r].cdoc.totalOrders = 1
          /\ ( /\ req[r].pc = "rf_savecustomer"
               /\ req'[r] # req[r]
               /\ FullRefund(r)
               /\ RefundFollowsSale(r)
               /\ req[r].cdoc.totalOrders = customers[req[r].sdoc.customer].totalOrders )
             => /\ customers'[req[r].sdoc.customer].totalSpent = 0
                /\ customers'[req[r].sdoc.customer].totalOrders = 1
      ]_vars

\* C13, its case: a sale of 100 linked to a customer was created, then fully
\* refunded by the only refund request; the customer has 1 order and 0 spent.
C13_Witness ==
    /\ Quiescent
    /\ Len(sales) = 1
    /\ sales[1].customer = "c1"
    /\ sales[1].totals.total = 100
    /\ sales[1].status = "refunded"
    /\ sales[1].refundInfo.totalRefunded = 100
    /\ Succeeded(1)
    /\ \E r \in Requests :
         /\ req[r].kind = "refundSale" /\ Succeeded(r)
         /\ \A q \in Requests \ {r} : req[q].kind # "refundSale"
    /\ customers["c1"].totalOrders = 1
    /\ customers["c1"].totalSpent = 0

\* C14: the payment.change stored by a quickSale is its paymentAmount (the
\* stored totalPaid) minus the totals.total persisted for that sale.
C14_QuickSaleChange ==
    \A r \in Requests :
        (req[r].kind = "quickSale" /\ req[r].sale # 0)
            => LET sale == sales[req[r].sale]
               IN  sale.payment.change = sale.payment.totalPaid - sale.totals.total

\* C15: quickSale rejects a line exactly when createSale's validation would
\* reject the same line on the same product.
C15_SameValidation ==
    [][ \A r \in Requests :
          ( /\ req[r].pc = "qs_validate"
            /\ req'[r] # req[r] )
          => LET line == req'[r].items[Len(req'[r].items)]
                 p    == products[line.product]
             IN  (req'[r].pc = "done") <=> (CreateSaleCheck(p, line.quantity) # "ok")
      ]_vars

\* C16: when updateStock fails in the stock loop of createSale or quickSale,
\* after the sale was persisted, the request does not end with an error
\* response, and the persisted sale is kept.
C16_DegradedSuccess ==
    [][ \A r \in Requests :
          ( /\ req[r].pc \in {"cs_update", "qs_update"}
            /\ req'[r] # req[r]
            /\ UpdateStockFails(req[r].pdoc,
                                sales[req[r].sale].items[req[r].i].quantity) )
          => /\ ~(req'[r].pc = "done" /\ req'[r].result # "ok")
             /\ sales' = sales
      ]_vars

\* C17: the step of createSale, voidSale or refundSale that writes the audit
\* record, after the state change was applied, ends the request with its
\* success response whether or not the write is rejected.
C17_LogFailureNotAnError ==
    [][ \A r \in Requests :
          ( /\ req[r].pc \in {"cs_respond", "vs_respond", "rf_respond"}
            /\ req'[r] # req[r] )
          => /\ req'[r].pc = "done"
             /\ req'[r].result = "ok"
      ]_vars

\* The createSale requests that persisted a sale linked to customer c.
LinkedCreates(c) ==
    {r \in Requests : /\ req[r].kind = "createSale"
                      /\ req[r].sale # 0
                      /\ sales[req[r].sale].customer = c}

\* The quantity of product id on the lines of one sale.
QuantityOf(sale, id) ==
    SumSeq([i \in 1..Len(sale.items) |->
               IF sale.items[i].product = id THEN sale.items[i].quantity ELSE 0])

\* C18: when no request is in flight, no refund was asked for, and every
\* createSale linked to a customer has succeeded, the customer's totalOrders is
\* the number of these requests, totalSpent the sum of their sales' totals, and
\* each product's favorite counter the quantity of it on their sales.
C18_StatisticsNotLost ==
    \A c \in CustomerIds :
        ( /\ Quiescent
          /\ \A r \in Requests : req[r].kind # "refundSale"
          /\ \A r \in LinkedCreates(c) : Succeeded(r) )
        => /\ customers[c].totalOrders = Cardinality(LinkedCreates(c))
           /\ customers[c].totalSpent =
                SumSeq([r \in 1..MaxRequests |->
                    IF r \in LinkedCreates(c) THEN sales[req[r].sale].totals.total ELSE 0])
           /\ \A id \in ProductIds :
                customers[c].favorites[id] =
                    SumSeq([r \in 1..MaxRequests |->
                        IF r \in LinkedCreates(c)
                        THEN QuantityOf(sales[req[r].sale], id) ELSE 0])

\* C19: every step of a voidSale request leaves every product and every
\* customer as they were, and changes nothing of any sale but the status and
\* the void information of the sale it voids.
C19_VoidFrame ==
    [][ \A r \in Requests :
          ( /\ req'[r].kind = "voidSale"
            /\ req'[r] # req[r] )
          => /\ products' = products
             /\ customers' = customers
             /\ Len(sales') = Len(sales)
             /\ \A k \in 1..Len(sales) :
                  /\ k # req'[r].sale => sales'[k] = sales[k]
                  /\ sales'[k] = [sales[k] EXCEPT !.status = sales'[k].status,
                                                  !.voided = sales'[k].voided]
      ]_vars

\* C19, its case: a sale linked to a customer, with its stock decrement and
\* its statistics applied, was voided with success; stock and statistics are
\* still those of the sale.
C19_Witness ==
    /\ Quiescent
    /\ \E r \in Requests :
         /\ req[r].kind = "voidSale" /\ Succeeded(r)
         /\ LET sale == sales[req[r].sale]
            IN  /\ sale.status = "voided" /\ sale.voided
                /\ sale.customer = "c1"
                /\ customers["c1"].totalOrders = 1
                /\ customers["c1"].totalSpent = sale.totals.total
                /\ customers["c1"].favorites["p1"] = QuantityOf(sale, "p1")
                /\ QuantityOf(sale, "p1") > 0
                /\ products["p1"].currentStock = stock0["p1"] - QuantityOf(sale, "p1")

\* C20: a createSale line that passed the validation is recorded with the
\* request's unit-price override when the request gave one, 0 included, and
\* with the product's effectivePrice when it gave none.
C20_UnitPriceOverride ==
    [][ \A r \in Requests :
          ( /\ req[r].pc = "cs_validate"
            /\ req'[r].pc \in {"cs_validate", "cs_save"}
            /\ req'[r] # req[r] )
          => LET line == req'[r].items[Len(req'[r].items)]
                 given == req'[r].override
             IN  line.unitPrice = IF given # Absent THEN given
                                  ELSE products[line.product].effectivePrice
      ]_vars

\* C21: the customer save of a successful refundSale, made on the customer as
\* the request loaded it, lowers totalSpent by the amount of that refund: over
\* one full refund or several partial ones every refunded amount is
\* subtracted once, and the subtractions add up to the sale's totalRefunded.
C21_RefundSubtractedOnce ==
    [][ \A r \in Requests :
          ( /\ req[r].pc = "rf_savecustomer"
            /\ req'[r] # req[r]
            /\ req[r].cdoc = SubtractRefund(customers[req[r].sdoc.customer], req[r].sdoc) )
          => customers'[req[r].sdoc.customer].totalSpent
                = customers[req[r].sdoc.customer].totalSpent
                    - RefundAmount(req[r].sdoc, req[r].refund)
      ]_vars

\* C22: every sale's payment.totalPaid is the sum of the amounts in its
\* payment.details, whatever recordPayment requests ran and interleaved.
C22_TotalPaidIsSumOfDetails ==
    \A k \in 1..Len(sales) :
        sales[k].payment.totalPaid = SumSeq(sales[k].payment.details)

\* C23: whatever deleteUser requests active owners issue, and however they
\* interleave, at least one active owner account exists.
C23_AnOwnerRemains == OwnerCount(users) >= 1

=============================================================================
